---- MODULE Spec2Model ----
(***************************************************************************)
(* A model of vumi/message.py: the JSON codec with its date-time hook, the *)
(* Message / TransportMessage / TransportUserMessage / TransportEvent      *)
(* constructors (process_fields + validate_fields), reply, reply_group,    *)
(* send, copy and the routing-endpoint accessors.                          *)
(*                                                                         *)
(* Python objects are modelled with reference semantics: every dict or     *)
(* list that is a payload VALUE lives in `heap` and is named by a Ref; a    *)
(* payload itself (the **kwargs dict of one constructor call) is owned by  *)
(* exactly one envelope and is held by value.                              *)
(***************************************************************************)
EXTENDS Naturals, Sequences, FiniteSets, TLC

VARIABLES store, heap, nextId, clock, last

vars == <<store, heap, nextId, clock, last>>

\* The number of envelopes the harness keeps alive at once.
MaxMsgs == 2

-----------------------------------------------------------------------------
(* Python values.  A value is a record [k, s, n]: k its kind, s its text   *)
(* (strings), n its number (numbers, booleans, date-time ticks in          *)
(* microseconds, heap addresses of dicts and lists).                       *)

None == [k |-> "null", s |-> "", n |-> 0]
Str(x) == [k |-> "str", s |-> x, n |-> 0]
Num(i) == [k |-> "num", s |-> "", n |-> i]
Bool(b) == [k |-> "bool", s |-> "", n |-> IF b THEN 1 ELSE 0]
Dt(t) == [k |-> "dt", s |-> "", n |-> t]
Ref(a) == [k |-> "ref", s |-> "", n |-> a]

\* uuid4().get_hex(): a string no earlier call has returned.
generate_id(id) == [k |-> "str", s |-> "uuid", n |-> id]

EmptyMap == [x \in {} |-> None]

DictCell(m) == [t |-> "dict", m |-> m, l |-> <<>>]
ListCell(q) == [t |-> "list", m |-> EmptyMap, l |-> q]

IsDict(v, h) == v.k = "ref" /\ h[v.n].t = "dict"

\* dict and list are the unhashable values of the payload model.
Hashable(v) == v.k # "ref"

(* Literals and JSON documents: the same values written out by value, as   *)
(* trees [k, s, n, m, l] (m the members of an object, l the items of a     *)
(* list).                                                                  *)
Leaf(v) == [k |-> v.k, s |-> v.s, n |-> v.n, m |-> EmptyMap, l |-> <<>>]
TNone == Leaf(None)
TStr(x) == Leaf(Str(x))
TNum(i) == Leaf(Num(i))
TBool(b) == Leaf(Bool(b))
TDt(t) == Leaf(Dt(t))
TObj(m) == [k |-> "obj", s |-> "", n |-> 0, m |-> m, l |-> <<>>]
TList(q) == [k |-> "list", s |-> "", n |-> 0, m |-> EmptyMap, l |-> q]

Has(f, key) == key \in DOMAIN f
Put(f, key, v) == [x \in DOMAIN f \cup {key} |-> IF x = key THEN v ELSE f[x]]
\* dict.setdefault(key, v), for a v that needs no allocation
SetDefault(f, key, v) == IF Has(f, key) THEN f ELSE Put(f, key, v)
\* dict.update(g)
Update(f, g) == [x \in DOMAIN f \cup DOMAIN g |-> IF x \in DOMAIN g THEN g[x] ELSE f[x]]
Without(f, keys) == [x \in DOMAIN f \ keys |-> f[x]]

-----------------------------------------------------------------------------
(* VUMI_DATE_FORMAT = "%Y-%m-%d %H:%M:%S.%f".  Date-times are microsecond  *)
(* ticks after 2012-01-01 00:00:00; strftime renders tick t as the t-th    *)
(* entry of the table.                                                     *)
VUMI_DATE_FORMAT ==
    << "2012-01-01 00:00:00.000001", "2012-01-01 00:00:00.000002",
       "2012-01-01 00:00:00.000003", "2012-01-01 00:00:00.000004",
       "2012-01-01 00:00:00.000005", "2012-01-01 00:00:00.000006",
       "2012-01-01 00:00:00.000007", "2012-01-01 00:00:00.000008" >>

Ticks == DOMAIN VUMI_DATE_FORMAT

strftime(t) == VUMI_DATE_FORMAT[t]

\* strptime accepts fields without zero padding: this text parses to tick 1
\* although strftime never produces it.
UnpaddedDate == "2012-1-1 0:0:0.000001"

\* datetime.strptime(s, VUMI_DATE_FORMAT): the tick, or 0 for ValueError.
strptime(s) ==
    IF \E t \in Ticks : strftime(t) = s
    THEN CHOOSE t \in Ticks : strftime(t) = s
    ELSE IF s = UnpaddedDate THEN 1 ELSE 0

\* date_time_decoder: the object hook of json.loads.  Every member of the
\* object whose value is a string that strptime parses becomes a datetime; a
\* ValueError (no match) or a TypeError (not a string) leaves the member alone.
date_time_decoder(m) ==
    [key \in DOMAIN m |->
        IF m[key].k = "str" /\ strptime(m[key].s) # 0
        THEN Dt(strptime(m[key].s))
        ELSE m[key]]

\* JSONMessageEncoder.default inside json.dumps: a datetime is written as its
\* strftime text, wherever it sits; everything else is written as itself.
RECURSIVE to_json(_)
to_json(node) ==
    CASE node.k = "dt" -> TStr(strftime(node.n))
      [] node.k = "obj" -> TObj([key \in DOMAIN node.m |-> to_json(node.m[key])])
      [] node.k = "list" -> TList([i \in DOMAIN node.l |-> to_json(node.l[i])])
      [] OTHER -> node

\* The tree a value denotes in heap h (what json.dumps walks, and what
\* dict.__eq__ compares).
RECURSIVE TreeOf(_, _)
TreeOf(v, h) ==
    IF v.k # "ref" THEN Leaf(v)
    ELSE IF h[v.n].t = "dict"
         THEN TObj([key \in DOMAIN h[v.n].m |-> TreeOf(h[v.n].m[key], h)])
         ELSE TList([i \in DOMAIN h[v.n].l |-> TreeOf(h[v.n].l[i], h)])

PayloadTree(p, h) == TObj([key \in DOMAIN p |-> TreeOf(p[key], h)])

(* Building objects from a tree: Build returns the value and the heap with *)
(* the new dicts and lists appended.  With hook = TRUE this is json.loads  *)
(* with object_hook = date_time_decoder (the hook runs on every object,    *)
(* innermost first, and never on a list); with hook = FALSE it is a caller *)
(* writing the literal down.                                               *)
NewDict(r, hook) ==
    [v |-> Ref(Len(r.h) + 1),
     h |-> Append(r.h, DictCell(IF hook THEN date_time_decoder(r.m) ELSE r.m))]

NewList(r) == [v |-> Ref(Len(r.h) + 1), h |-> Append(r.h, ListCell(r.l))]

PutMember(acc, key, r) == [m |-> Put(acc, key, r.v), h |-> r.h]
AppendItem(acc, r) == [l |-> Append(acc, r.v), h |-> r.h]

RECURSIVE Build(_, _, _), BuildMembers(_, _, _, _)
RECURSIVE BuildItems(_, _, _, _)
Build(node, h, hook) ==
    CASE node.k = "obj" ->
           NewDict(BuildMembers(node.m, DOMAIN node.m, [m |-> EmptyMap, h |-> h], hook), hook)
      [] node.k = "list" ->
           NewList(BuildItems(node.l, 1, [l |-> <<>>, h |-> h], hook))
      [] OTHER -> [v |-> [k |-> node.k, s |-> node.s, n |-> node.n], h |-> h]

\* acc = [m, h]: the members built so far and the heap after building them.
BuildMembers(m, keys, acc, hook) ==
    IF keys = {} THEN acc
    ELSE BuildMembers(m, keys \ {CHOOSE x \in keys : TRUE},
                      PutMember(acc.m, CHOOSE x \in keys : TRUE,
                                Build(m[CHOOSE x \in keys : TRUE], acc.h, hook)),
                      hook)

\* acc = [l, h]
BuildItems(q, i, acc, hook) ==
    IF i > Len(q) THEN acc
    ELSE BuildItems(q, i + 1, AppendItem(acc.l, Build(q[i], acc.h, hook)), hook)

Hooked(r) == [m |-> date_time_decoder(r.m), h |-> r.h]

\* from_json(json_string) followed by to_kwargs and the ** of the constructor
\* call: the top-level object goes through the hook like any other, and its
\* members become the new envelope's payload.  The result is [m, h].
from_json(doc, h) ==
    Hooked(BuildMembers(doc.m, DOMAIN doc.m, [m |-> EmptyMap, h |-> h], TRUE))

\* A caller's keyword arguments, written as literals.
Kwargs(lit, h) == BuildMembers(lit, DOMAIN lit, [m |-> EmptyMap, h |-> h], FALSE)

-----------------------------------------------------------------------------
(* Message, TransportMessage, TransportUserMessage, TransportEvent.        *)
(* A class is "user" (TransportUserMessage) or "event" (TransportEvent).   *)

MESSAGE_VERSION == "20110921"
DEFAULT_ENDPOINT_NAME == "default"
MESSAGE_TYPE(cls) == IF cls = "user" THEN Str("user_message") ELSE Str("event")

SESSION_NONE == None
SESSION_CLOSE == Str("close")
SESSION_EVENTS == {SESSION_NONE, Str("new"), Str("resume"), SESSION_CLOSE}

TRANSPORT_TYPES ==
    {Str("http_api"), Str("irc"), Str("telnet"), Str("twitter"), Str("sms"),
     Str("ussd"), Str("xmpp"), Str("mxit")}

DELIVERY_STATUSES == {Str("pending"), Str("failed"), Str("delivered")}

\* EVENT_TYPES: event_type -> its extra field (each kind has exactly one).
EVENT_TYPES ==
    [ack |-> "sent_message_id", nack |-> "nack_reason",
     delivery_report |-> "delivery_status"]

\* The outcome of a step that may raise: status is "ok" or the exception
\* (MissingField, InvalidField, TypeError, AttributeError), field its argument.
Ok(p) == [status |-> "ok", field |-> "", p |-> p]
Raise(exc, field, p) == [status |-> exc, field |-> field, p |-> p]

\* assert_field_present(*fields): the first absent field, in argument order.
FirstAbsent(p, fields) ==
    IF \A i \in DOMAIN fields : Has(p, fields[i]) THEN ""
    ELSE fields[CHOOSE i \in DOMAIN fields :
                    /\ ~Has(p, fields[i])
                    /\ \A j \in 1..(i - 1) : Has(p, fields[j])]

assert_field_present(p, fields) ==
    IF FirstAbsent(p, fields) = "" THEN Ok(p)
    ELSE Raise("MissingField", FirstAbsent(p, fields), p)

\* assert_field_value(field, *values): `not in` a tuple compares with ==.
assert_field_value(p, field, values) ==
    IF ~Has(p, field) THEN Raise("MissingField", field, p)
    ELSE IF p[field] \notin values THEN Raise("InvalidField", field, p)
    ELSE Ok(p)

\* dict.setdefault(key, {}) on [m, h]: a new empty dict when key is absent.
SetDefaultDict(r, key) ==
    IF Has(r.m, key) THEN r
    ELSE [m |-> Put(r.m, key, Ref(Len(r.h) + 1)),
          h |-> Append(r.h, DictCell(EmptyMap))]

TransportMessage_process_fields(cls, f, h, now) ==
    LET f1 == SetDefault(f, "message_version", Str(MESSAGE_VERSION))
        f2 == SetDefault(f1, "message_type", MESSAGE_TYPE(cls))
        f3 == SetDefault(f2, "timestamp", Dt(now))
    IN  SetDefaultDict([m |-> f3, h |-> h], "routing_metadata")

TransportMessage_validate_fields(p) ==
    LET a == assert_field_value(p, "message_version", {Str(MESSAGE_VERSION)})
        b == assert_field_present(p, <<"message_type", "timestamp">>)
    IN  IF a.status # "ok" THEN a
        ELSE IF b.status # "ok" THEN b
        ELSE IF p["message_type"] = None THEN Raise("InvalidField", "message_type", p)
        ELSE Ok(p)

\* The setdefaults of TransportUserMessage.process_fields after super's (r0).
UserDefaults(r0, id) ==
    SetDefaultDict(
        SetDefaultDict(
            [m |-> SetDefault(
                     SetDefault(
                       SetDefault(
                         SetDefault(r0.m, "message_id", generate_id(id)),
                         "in_reply_to", None),
                       "session_event", None),
                     "content", None),
             h |-> r0.h],
            "transport_metadata"),
        "helper_metadata")

GroupDefault(r) == [m |-> SetDefault(r.m, "group", None), h |-> r.h]

TransportUserMessage_process_fields(f, h, id, now) ==
    GroupDefault(UserDefaults(TransportMessage_process_fields("user", f, h, now), id))

UserRequired ==
    << "message_id", "to_addr", "from_addr", "in_reply_to", "session_event",
       "content", "transport_name", "transport_type", "transport_metadata",
       "helper_metadata", "group" >>

\* `x not in frozenset` hashes x first: a dict or a list raises TypeError.
SessionEventCheck(q) ==
    IF ~Hashable(q["session_event"]) THEN Raise("TypeError", "unhashable type", q)
    ELSE IF q["session_event"] \notin SESSION_EVENTS
         THEN Raise("InvalidField", "Invalid session_event", q)
    ELSE Ok(q)

\* What TransportUserMessage.validate_fields does after super's checks (a): q
\* is the payload with the back-compat `group`.
UserChecks(a, q) ==
    IF a.status # "ok" THEN a
    ELSE IF FirstAbsent(q, UserRequired) # "" THEN assert_field_present(q, UserRequired)
    ELSE SessionEventCheck(q)

TransportUserMessage_validate_fields(p) ==
    UserChecks(TransportMessage_validate_fields(p), SetDefault(p, "group", None))

EventDefaults(r0, id) == [m |-> SetDefault(r0.m, "event_id", generate_id(id)), h |-> r0.h]

TransportEvent_process_fields(f, h, id, now) ==
    EventDefaults(TransportMessage_process_fields("event", f, h, now), id)

\* A mutant of ExtraFieldCheck: only delivery_status is looked at.
ExtraFieldCheck_Lax(field, v) ==
    IF field = "delivery_status" THEN v \in DELIVERY_STATUSES ELSE TRUE

\* The predicate EVENT_TYPES gives for an extra field.
ExtraFieldCheck(field, v) ==
    IF field = "delivery_status" THEN v \in DELIVERY_STATUSES ELSE v # None

IsEventType(v) == v.k = "str" /\ v.s \in DOMAIN EVENT_TYPES

\* The loop over EVENT_TYPES[event_type].items().  `v in DELIVERY_STATUSES` (a
\* frozenset) hashes v first.
ExtraChecks(p, extra) ==
    IF ~Has(p, extra) THEN Raise("MissingField", extra, p)
    ELSE IF extra = "delivery_status" /\ ~Hashable(p[extra])
         THEN Raise("TypeError", "unhashable type", p)
    ELSE IF ~ExtraFieldCheck(extra, p[extra]) THEN Raise("InvalidField", extra, p)
    ELSE Ok(p)

EventRequired == <<"user_message_id", "event_id", "event_type">>

\* What TransportEvent.validate_fields does after super's checks (a).
\* `event_type not in EVENT_TYPES` (a dict) hashes event_type first.
EventChecks(a, p) ==
    IF a.status # "ok" THEN a
    ELSE IF FirstAbsent(p, EventRequired) # "" THEN assert_field_present(p, EventRequired)
    ELSE IF ~Hashable(p["event_type"]) THEN Raise("TypeError", "unhashable type", p)
    ELSE IF ~IsEventType(p["event_type"])
         THEN Raise("InvalidField", "Unknown event_type", p)
    ELSE ExtraChecks(p, EVENT_TYPES[p["event_type"].s])

TransportEvent_validate_fields(p) ==
    EventChecks(TransportMessage_validate_fields(p), p)

process_fields(cls, f, h, id, now) ==
    IF cls = "user" THEN TransportUserMessage_process_fields(f, h, id, now)
    ELSE TransportEvent_process_fields(f, h, id, now)

validate_fields(cls, p) ==
    IF cls = "user" THEN TransportUserMessage_validate_fields(p)
    ELSE TransportEvent_validate_fields(p)

\* self.payload = kwargs; self.validate_fields(), r = [m, h] the keyword
\* arguments after process_fields: [status, field, p, h].
Validated(cls, r) ==
    [status |-> validate_fields(cls, r.m).status,
     field |-> validate_fields(cls, r.m).field,
     p |-> validate_fields(cls, r.m).p,
     h |-> r.h]

\* Message.__init__(_process_fields, **kwargs), k = [m, h] the keyword
\* arguments and the heap they were built in.
Message_init(cls, process, k, id, now) ==
    IF process THEN Validated(cls, process_fields(cls, k.m, k.h, id, now))
    ELSE Validated(cls, k)

-----------------------------------------------------------------------------
(* Operations.  Each takes the live envelopes st (a sequence of            *)
(* [cls, payload]), the heap h, a fresh id and the current time, and       *)
(* returns [status, field, store, heap]: on "ok" the returned envelope is  *)
(* the last element of store.                                              *)

Envelope(cls, p) == [cls |-> cls, payload |-> p]
Returned(st, h) == [status |-> "ok", field |-> "", store |-> st, heap |-> h]
Raised(exc, field, st, h) == [status |-> exc, field |-> field, store |-> st, heap |-> h]

\* The caller's end of a constructor call c: it holds the new envelope, or the
\* exception left nothing behind (the payload and whatever was allocated for
\* the call are unreachable).
Constructed(cls, c, st, h) ==
    IF c.status = "ok" THEN Returned(Append(st, Envelope(cls, c.p)), c.h)
    ELSE Raised(c.status, c.field, st, h)

\* cls(**fields): construction from raw fields (a literal).
new(cls, lit, st, h, id, now) ==
    Constructed(cls, Message_init(cls, TRUE, Kwargs(lit, h), id, now), st, h)

\* A mutant of Message_from_json: the wire payload goes through process_fields.
Message_from_json_Defaults(cls, doc, st, h, id, now) ==
    Constructed(cls, Message_init(cls, TRUE, from_json(doc, h), id, now), st, h)

\* cls.from_json(json_string): construction from wire JSON.
Message_from_json(cls, doc, st, h, id, now) ==
    Constructed(cls, Message_init(cls, FALSE, from_json(doc, h), id, now), st, h)

\* Message.to_json(self) and Message.copy(self)
Message_to_json(p, h) == to_json(PayloadTree(p, h))

copy(i, st, h, id, now) ==
    Message_from_json(st[i].cls, Message_to_json(st[i].payload, h), st, h, id, now)

\* Message.__eq__: dict equality is structural.
Message_eq(p1, h1, p2, h2) == PayloadTree(p1, h1) = PayloadTree(p2, h2)

check_routing_endpoint(endpoint_name) ==
    IF endpoint_name = None THEN Str(DEFAULT_ENDPOINT_NAME) ELSE endpoint_name

\* The routing_metadata property: self.payload.setdefault('routing_metadata', {}).
routing_metadata(p, h) == SetDefaultDict([m |-> p, h |-> h], "routing_metadata")

\* dict.get(key): None when absent.
DictGet(cell, key) == IF Has(cell.m, key) THEN cell.m[key] ELSE None

\* get_routing_endpoint, r the payload and heap after the property's
\* setdefault: [status, v, m, h].  `.get` exists on a dict only.
GetEndpoint(r) ==
    IF ~IsDict(r.m["routing_metadata"], r.h)
    THEN [status |-> "AttributeError", v |-> None, m |-> r.m, h |-> r.h]
    ELSE [status |-> "ok",
          v |-> check_routing_endpoint(
                    DictGet(r.h[r.m["routing_metadata"].n], "endpoint_name")),
          m |-> r.m, h |-> r.h]

get_routing_endpoint(p, h) == GetEndpoint(routing_metadata(p, h))

\* A mutant of SetEndpoint: an endpoint_name already in routing_metadata is kept.
SetEndpoint_KeepExisting(r, endpoint_name) ==
    IF ~IsDict(r.m["routing_metadata"], r.h)
    THEN [status |-> "TypeError", m |-> r.m, h |-> r.h]
    ELSE [status |-> "ok", m |-> r.m,
          h |-> [r.h EXCEPT ![r.m["routing_metadata"].n].m =
                    SetDefault(@, "endpoint_name", check_routing_endpoint(endpoint_name))]]

\* set_routing_endpoint: [status, m, h].  Item assignment with a string key
\* works on a dict only.
SetEndpoint(r, endpoint_name) ==
    IF ~IsDict(r.m["routing_metadata"], r.h)
    THEN [status |-> "TypeError", m |-> r.m, h |-> r.h]
    ELSE [status |-> "ok", m |-> r.m,
          h |-> [r.h EXCEPT ![r.m["routing_metadata"].n].m =
                    Put(@, "endpoint_name", check_routing_endpoint(endpoint_name))]]

set_routing_endpoint(p, h, endpoint_name) ==
    SetEndpoint(routing_metadata(p, h), endpoint_name)

\* A mutant of ReplyForbidden: transport_metadata is not tested.
ReplyForbidden_Short ==
    << "to_addr", "from_addr", "group", "in_reply_to",
       "transport_name", "transport_type" >>

\* Fields reply refuses to have overridden, in the order it tests them.
ReplyForbidden ==
    << "to_addr", "from_addr", "group", "in_reply_to",
       "transport_name", "transport_type", "transport_metadata" >>

ForbiddenIn(kw) == {i \in DOMAIN ReplyForbidden : ReplyForbidden[i] \in DOMAIN kw}

FirstForbidden(kw) ==
    ReplyForbidden[CHOOSE x \in ForbiddenIn(kw) : \A y \in ForbiddenIn(kw) : x <= y]

\* A mutant of ReplyFields: the addresses are not swapped.
ReplyFields_Unswapped(parent, continue_session) ==
    [helper_metadata |-> parent["helper_metadata"],
     session_event |-> IF continue_session THEN None ELSE SESSION_CLOSE,
     to_addr |-> parent["to_addr"],
     from_addr |-> parent["from_addr"],
     group |-> parent["group"],
     in_reply_to |-> parent["message_id"],
     transport_name |-> parent["transport_name"],
     transport_type |-> parent["transport_type"],
     transport_metadata |-> parent["transport_metadata"]]

\* The fields reply derives from the message being replied to.
ReplyFields(parent, continue_session) ==
    [helper_metadata |-> parent["helper_metadata"],
     session_event |-> IF continue_session THEN None ELSE SESSION_CLOSE,
     to_addr |-> parent["from_addr"],
     from_addr |-> parent["to_addr"],
     group |-> parent["group"],
     in_reply_to |-> parent["message_id"],
     transport_name |-> parent["transport_name"],
     transport_type |-> parent["transport_type"],
     transport_metadata |-> parent["transport_metadata"]]

\* fields.update(kw) and content=content: the keyword arguments of the
\* constructor call, k = [m, h] the caller's kw.
ReplyArgs(parent, content, continue_session, k) ==
    [m |-> Put(Update(ReplyFields(parent, continue_session), k.m), "content", content),
     h |-> k.h]

\* return out_msg, after set_routing_endpoint ended as e.
ReplyReturn(e, st1, h1) ==
    IF e.status # "ok" THEN Raised(e.status, "endpoint_name", st1, h1)
    ELSE Returned(Append(st1, Envelope("user", e.m)), e.h)

\* out_msg.set_routing_endpoint(self.get_routing_endpoint()), the getter having
\* ended as g: its setdefault stays in the parent's payload.
ReplyEndpoint(i, c, g, st, h) ==
    IF g.status # "ok" THEN Raised(g.status, "get", st, h)
    ELSE ReplyReturn(set_routing_endpoint(c.p, g.h, g.v),
                     [st EXCEPT ![i].payload = g.m], g.h)

\* The lines of reply after the constructor call c.
ReplyRoute(i, c, st, h) ==
    IF c.status # "ok" THEN Raised(c.status, c.field, st, h)
    ELSE ReplyEndpoint(i, c, get_routing_endpoint(st[i].payload, c.h), st, h)

\* st[i].reply(content, continue_session, **kw), kw a literal.
reply(i, content, continue_session, kw, st, h, id, now) ==
    IF ForbiddenIn(kw) # {} THEN Raised("TypeError", FirstForbidden(kw), st, h)
    ELSE ReplyRoute(i,
                    Message_init("user", TRUE,
                                 ReplyArgs(st[i].payload, content, continue_session,
                                           Kwargs(kw, h)),
                                 id, now),
                    st, h)

\* A mutant of GroupDirect: to_addr is cleared whatever the parent's group.
GroupDirect_Always(i, r) ==
    IF r.status = "ok"
    THEN [r EXCEPT !.store[Len(r.store)].payload = Put(@, "to_addr", None)]
    ELSE r

\* The lines of reply_group after reply returned r.
GroupDirect(i, r) ==
    IF r.status = "ok" /\ r.store[i].payload["group"] # None
    THEN [r EXCEPT !.store[Len(r.store)].payload = Put(@, "to_addr", None)]
    ELSE r

\* st[i].reply_group(content, continue_session, **kw)
reply_group(i, content, continue_session, kw, st, h, id, now) ==
    GroupDirect(i, reply(i, content, continue_session, kw, st, h, id, now))

\* Keywords send passes itself: a caller's kw naming one of them is a second
\* value for the same keyword argument.
SendOwn == {"to_addr", "in_reply_to", "content", "session_event"}

\* A mutant of SendArgs: transport_type gets no default.
SendArgs_NoTransportType(to_addr, content, k) ==
    [m |-> Update(SetDefault(SetDefault(k.m, "from_addr", None), "transport_name", None),
                  [to_addr |-> to_addr, in_reply_to |-> None, content |-> content,
                   session_event |-> SESSION_NONE]),
     h |-> k.h]

\* The keyword arguments of send's constructor call, k = [m, h] the caller's kw.
SendArgs(to_addr, content, k) ==
    [m |-> Update(SetDefault(SetDefault(SetDefault(k.m, "from_addr", None),
                                        "transport_name", None),
                             "transport_type", None),
                  [to_addr |-> to_addr, in_reply_to |-> None, content |-> content,
                   session_event |-> SESSION_NONE]),
     h |-> k.h]

\* TransportUserMessage.send(to_addr, content, **kw), kw a literal.
send(to_addr, content, kw, st, h, id, now) ==
    IF DOMAIN kw \cap SendOwn # {}
    THEN Raised("TypeError", CHOOSE x \in DOMAIN kw \cap SendOwn : TRUE, st, h)
    ELSE Constructed("user",
                     Message_init("user", TRUE, SendArgs(to_addr, content, Kwargs(kw, h)),
                                  id, now),
                     st, h)

\* Message.__setitem__: st[i][key] = v.
setitem(i, key, v, st, h) ==
    Returned([st EXCEPT ![i].payload = Put(@, key, v)], h)

\* Message.__getitem__: st[i][key], for a key the payload has.
getitem(i, key, st) == st[i].payload[key]

\* st[i][field][key] = v: the value __getitem__ returns is the object the payload
\* holds, and the assignment goes into that object.  Item assignment with a
\* string key works on a dict only.
setmeta(i, field, key, v, st, h) ==
    IF ~Has(st[i].payload, field) THEN Raised("KeyError", field, st, h)
    ELSE IF ~IsDict(getitem(i, field, st), h) THEN Raised("TypeError", field, st, h)
    ELSE Returned(st, [h EXCEPT ![getitem(i, field, st).n].m = Put(@, key, v)])

-----------------------------------------------------------------------------
(* The inputs the callers of the model draw from.                          *)

DateText == strftime(3)

\* mkmsg_in of the tests: an inbound SMS.
BaseFields ==
    [to_addr |-> TStr("+123"), from_addr |-> TStr("+41791234567"),
     transport_name |-> TStr("t"), transport_type |-> TStr("sms")]

UserFields ==
    { BaseFields,
      Put(BaseFields, "group", TStr("g1")),
      Put(BaseFields, "session_event", TStr("new")),
      Put(BaseFields, "session_event", TStr("bogus")),
      Put(BaseFields, "session_event", TList(<<>>)),
      Without(BaseFields, {"to_addr"}),
      Put(BaseFields, "message_version", TStr("1")),
      Put(BaseFields, "message_type", TNone),
      Put(BaseFields, "content", TStr(DateText)),
      Put(BaseFields, "content", TStr(UnpaddedDate)),
      Put(BaseFields, "helper_metadata", TObj([when |-> TDt(3)])),
      Put(BaseFields, "helper_metadata", TObj([tags |-> TList(<<TDt(3)>>)])),
      Put(BaseFields, "transport_metadata", TObj([n |-> TNum(7), b |-> TBool(TRUE)])),
      Put(BaseFields, "routing_metadata", TObj([endpoint_name |-> TStr("ep1")])),
      Put(BaseFields, "routing_metadata", TObj([endpoint_name |-> TNone])),
      Put(BaseFields, "routing_metadata", TNone),
      Put(BaseFields, "transport_type", TStr("carrier_pigeon")) }

\* A complete user message as an older producer put it on the wire: every
\* required key, no routing_metadata.
WireUser ==
    [message_version |-> TStr(MESSAGE_VERSION), message_type |-> TStr("user_message"),
     timestamp |-> TStr(strftime(2)), message_id |-> TStr("abc"),
     to_addr |-> TStr("+123"), from_addr |-> TStr("+41791234567"),
     in_reply_to |-> TNone, session_event |-> TNone, content |-> TStr("hello world"),
     transport_name |-> TStr("t"), transport_type |-> TStr("sms"),
     transport_metadata |-> TObj(EmptyMap), helper_metadata |-> TObj(EmptyMap),
     group |-> TNone]

WireDocs ==
    {TObj(Without(WireUser, {key})) : key \in DOMAIN WireUser}
    \cup { TObj(WireUser),
           TObj(Put(WireUser, "group", TStr("g1"))),
           TObj(Put(Without(WireUser, {"to_addr"}), "message_version", TStr("1"))),
           TObj(Put(Without(WireUser, {"to_addr"}), "message_type", TNone)),
           TObj(Put(WireUser, "session_event", TStr("bogus"))),
           TObj(Put(WireUser, "session_event", TObj(EmptyMap))),
           TObj(Put(Without(WireUser, {"group"}), "session_event", TStr("bogus"))),
           TObj(Put(WireUser, "content", TStr(DateText))),
           TObj(Put(WireUser, "routing_metadata", TStr("ep1"))) }

EventBase == [user_message_id |-> TStr("abc")]
Event(type) == Put(EventBase, "event_type", type)

EventFields ==
    { Put(Event(TStr("ack")), "sent_message_id", TStr("1")),
      Put(Event(TStr("ack")), "sent_message_id", TNone),
      Event(TStr("ack")),
      Put(Event(TStr("nack")), "nack_reason", TStr("unknown address")),
      Put(Event(TStr("nack")), "nack_reason", TNone),
      Event(TStr("nack")),
      Put(Event(TStr("delivery_report")), "delivery_status", TStr("delivered")),
      Put(Event(TStr("delivery_report")), "delivery_status", TStr("bogus")),
      Put(Event(TStr("delivery_report")), "delivery_status", TList(<<>>)),
      Event(TStr("delivery_report")),
      Put(Event(TStr("bogus")), "sent_message_id", TStr("1")),
      Put(Event(TList(<<>>)), "sent_message_id", TStr("1")),
      Put(Put(Event(TStr("ack")), "sent_message_id", TStr("1")), "message_version", TStr("1")),
      Put(EventBase, "sent_message_id", TStr("1")),
      [event_type |-> TStr("ack"), sent_message_id |-> TStr("1")] }

\* **kw of reply and reply_group.  `content` and `continue_session` cannot be
\* among them: they are reply's own parameters.
ReplyKw ==
    {[key \in {f} |-> TStr("+1")] :
        f \in {"to_addr", "from_addr", "group", "in_reply_to",
               "transport_name", "transport_type", "transport_metadata"}}
    \cup { EmptyMap,
           [session_event |-> TNone],
           [session_event |-> TStr("new")],
           [session_event |-> TStr("close")],
           [session_event |-> TStr("bogus")],
           [session_event |-> TList(<<>>)],
           [helper_metadata |-> TObj([h |-> TStr("1")])],
           [routing_metadata |-> TObj([endpoint_name |-> TStr("other")])],
           [routing_metadata |-> TNone],
           [message_id |-> TStr("m2")],
           [message_version |-> TStr("1")],
           [to_addr |-> TStr("+1"), session_event |-> TStr("bogus")] }

SendKw ==
    { EmptyMap,
      [from_addr |-> TStr("+123"), transport_name |-> TStr("t"),
       transport_type |-> TStr("sms")],
      [group |-> TStr("g1")],
      [session_event |-> TStr("new")] }

Classes == {"user", "event"}

\* What a caller writes into an envelope it holds: top-level fields, and
\* entries of its metadata mappings.
WriteKeys == {"content", "to_addr"}
MetaFields == {"transport_metadata", "helper_metadata", "routing_metadata"}

-----------------------------------------------------------------------------
(* The state machine: callers construct, decode, derive and copy envelopes.*)
(* `last` records the latest call: its name, its arguments, how it ended    *)
(* and (pre) the state it was made in; when status is "ok" the envelope it *)
(* returned is store[Len(store)].                                          *)

Blank == [store |-> <<>>, heap |-> <<>>, nextId |-> 1, clock |-> 1]

NoCall ==
    [op |-> "init", status |-> "", field |-> "", cls |-> "", parent |-> 0,
     content |-> None, continue_session |-> TRUE, kw |-> EmptyMap, arg |-> TNone,
     target |-> 0, pre |-> Blank]

Init ==
    /\ store = <<>>
    /\ heap = <<>>
    /\ nextId = 1
    /\ clock = 1
    /\ last = NoCall

\* The effect of a call that ended as r: on "ok" an id and a clock tick were used.
Effect(r, call) ==
    /\ store' = r.store
    /\ heap' = r.heap
    /\ nextId' = IF r.status = "ok" THEN nextId + 1 ELSE nextId
    /\ clock' = IF r.status = "ok" THEN clock + 1 ELSE clock
    /\ last' = [call EXCEPT !.status = r.status, !.field = r.field,
                            !.pre = [store |-> store, heap |-> heap,
                                     nextId |-> nextId, clock |-> clock]]

\* A caller goes on while it has room for another envelope; an exception that
\* a call raised is not caught, and ends the run, and so does a write.
Room ==
    /\ Len(store) < MaxMsgs
    /\ last.status \in {"", "ok"}
    /\ last.op \notin {"setitem", "setmeta"}
Users == {i \in DOMAIN store : store[i].cls = "user"}

New ==
    /\ Room
    /\ \E cls \in Classes :
         \E lit \in (IF cls = "user" THEN UserFields ELSE EventFields) :
            Effect(new(cls, lit, store, heap, nextId, clock),
                   [NoCall EXCEPT !.op = "new", !.cls = cls, !.arg = TObj(lit)])

FromJson ==
    /\ Room
    /\ \E doc \in WireDocs :
         Effect(Message_from_json("user", doc, store, heap, nextId, clock),
                [NoCall EXCEPT !.op = "from_json", !.cls = "user", !.arg = doc])

Send ==
    /\ Room
    /\ \E kw \in SendKw :
         Effect(send(Str("+123456"), Str("foo"), kw, store, heap, nextId, clock),
                [NoCall EXCEPT !.op = "send", !.cls = "user", !.content = Str("foo"),
                               !.kw = kw])

Reply ==
    /\ Room
    /\ \E i \in Users, cs \in BOOLEAN, kw \in ReplyKw :
         Effect(reply(i, Str("hi"), cs, kw, store, heap, nextId, clock),
                [NoCall EXCEPT !.op = "reply", !.cls = "user", !.parent = i,
                               !.content = Str("hi"), !.continue_session = cs,
                               !.kw = kw])

ReplyGroup ==
    /\ Room
    /\ \E i \in Users, cs \in BOOLEAN, kw \in ReplyKw :
         Effect(reply_group(i, Str("hi"), cs, kw, store, heap, nextId, clock),
                [NoCall EXCEPT !.op = "reply_group", !.cls = "user", !.parent = i,
                               !.content = Str("hi"), !.continue_session = cs,
                               !.kw = kw])

Copy ==
    /\ Room
    /\ \E i \in DOMAIN store :
         Effect(copy(i, store, heap, nextId, clock),
                [NoCall EXCEPT !.op = "copy", !.cls = store[i].cls, !.parent = i])

\* A write changes no id and reads no clock.
WriteEffect(r, call) ==
    /\ store' = r.store
    /\ heap' = r.heap
    /\ UNCHANGED <<nextId, clock>>
    /\ last' = [call EXCEPT !.status = r.status, !.field = r.field,
                            !.pre = [store |-> store, heap |-> heap,
                                     nextId |-> nextId, clock |-> clock]]

\* The latest call returned a reply: the caller holds it (the last envelope)
\* and its parent.
Replied == last.op \in {"reply", "reply_group"} /\ last.status = "ok"
Pair == {last.parent, Len(store)}

SetItem ==
    /\ Replied
    /\ \E i \in Pair, key \in WriteKeys :
         WriteEffect(setitem(i, key, Str("w"), store, heap),
                     [NoCall EXCEPT !.op = "setitem", !.cls = "user",
                                    !.parent = last.parent, !.target = i,
                                    !.content = Str("w")])

SetMeta ==
    /\ Replied
    /\ \E i \in Pair, field \in MetaFields :
         WriteEffect(setmeta(i, field, "w", Str("w"), store, heap),
                     [NoCall EXCEPT !.op = "setmeta", !.cls = "user",
                                    !.parent = last.parent, !.target = i,
                                    !.content = Str("w")])

Next == New \/ FromJson \/ Send \/ Reply \/ ReplyGroup \/ Copy \/ SetItem \/ SetMeta

Spec == Init /\ [][Next]_vars

-----------------------------------------------------------------------------
(* What the properties below talk about.                                   *)

\* The payload of the envelope the latest call returned, the payload its
\* parent had when the call was made, and the heap of that moment.
OutP == store[Len(store)].payload
Parent == last.pre.store[last.parent].payload
PreHeap == last.pre.heap

Succeeded(ops) == last.op \in ops /\ last.status = "ok"

\* Two values are equal as Python compares them (structurally).
SameValue(v1, h1, v2, h2) == TreeOf(v1, h1) = TreeOf(v2, h2)

\* The fields reply derives from its parent, helper_metadata aside.
C1_Derived ==
    /\ OutP["to_addr"] = Parent["from_addr"]
    /\ OutP["from_addr"] = Parent["to_addr"]
    /\ OutP["group"] = Parent["group"]
    /\ OutP["in_reply_to"] = Parent["message_id"]
    /\ OutP["transport_name"] = Parent["transport_name"]
    /\ OutP["transport_type"] = Parent["transport_type"]
    /\ SameValue(OutP["transport_metadata"], heap, Parent["transport_metadata"], PreHeap)
    /\ OutP["content"] = last.content

\* C1 as claimed: a reply without forbidden overrides takes to_addr, from_addr,
\* group, in_reply_to, transport_name/type/metadata and helper_metadata from its
\* parent, and its content from the argument.
C1_Original ==
    Succeeded({"reply"}) =>
        /\ C1_Derived
        /\ SameValue(OutP["helper_metadata"], heap, Parent["helper_metadata"], PreHeap)

\* C1, amended: as claimed, except that helper_metadata is the parent's only
\* when the overrides do not supply it; a supplied helper_metadata is the reply's.
C1_ReplyDerivesFields ==
    Succeeded({"reply"}) =>
        /\ C1_Derived
        /\ IF Has(last.kw, "helper_metadata")
           THEN TreeOf(OutP["helper_metadata"], heap) = last.kw["helper_metadata"]
           ELSE SameValue(OutP["helper_metadata"], heap, Parent["helper_metadata"], PreHeap)

C1_Witness == Succeeded({"reply"}) /\ Has(last.kw, "helper_metadata")

\* The override keys the claims call forbidden.
ForbiddenKeys ==
    {"to_addr", "from_addr", "group", "in_reply_to", "transport_name",
     "transport_type", "transport_metadata"}

Forbids(kw) == DOMAIN kw \cap ForbiddenKeys # {}

\* A reply call with a forbidden override raised exc, returned nothing and left
\* every envelope and every object as it was.
C2_Refused(exc) ==
    (last.op = "reply" /\ Forbids(last.kw)) =>
        /\ last.status = exc
        /\ store = last.pre.store
        /\ heap = PreHeap

\* C2 as claimed: a forbidden override key makes reply fail with InvalidField,
\* before anything else, returning no envelope and leaving the parent unchanged.
C2_Original == C2_Refused("InvalidField")

\* C2, amended: the failure is a TypeError, not an InvalidField; the rest as claimed.
C2_ForbiddenOverrideRaisesTypeError == C2_Refused("TypeError")

C2_Witness ==
    last.op = "reply" /\ Forbids(last.kw) /\ Has(last.kw, "session_event")

\* C3: in a reply without forbidden overrides a supplied session_event is the
\* reply's whatever continue_session is, and one outside none/new/resume/close
\* fails with InvalidField; without it the reply's session_event is none when
\* continue_session is true and close when it is false.
C3_SessionEvent ==
    (last.op = "reply" /\ ~Forbids(last.kw)) =>
        IF Has(last.kw, "session_event")
        THEN IF last.kw["session_event"] \in {Leaf(v) : v \in SESSION_EVENTS}
             THEN last.status = "ok" => Leaf(OutP["session_event"]) = last.kw["session_event"]
             ELSE last.status = "InvalidField"
        ELSE last.status = "ok" =>
                OutP["session_event"] = (IF last.continue_session THEN None ELSE Str("close"))

\* The endpoint name the claim gives a payload: routing_metadata.endpoint_name
\* if set and non-null, else the default.
C4_Resolved(p, h) ==
    IF /\ Has(p, "routing_metadata")
       /\ IsDict(p["routing_metadata"], h)
       /\ Has(h[p["routing_metadata"].n].m, "endpoint_name")
       /\ h[p["routing_metadata"].n].m["endpoint_name"] # None
    THEN h[p["routing_metadata"].n].m["endpoint_name"]
    ELSE Str("default")

\* C4: a successful reply or reply_group has the routing endpoint its parent
\* resolved to, written into its own routing_metadata.endpoint_name, whatever
\* the overrides (an override of routing_metadata included).
C4_ReplyKeepsEndpoint ==
    Succeeded({"reply", "reply_group"}) =>
        /\ get_routing_endpoint(Parent, PreHeap).status = "ok"
        /\ get_routing_endpoint(Parent, PreHeap).v = C4_Resolved(Parent, PreHeap)
        /\ get_routing_endpoint(OutP, heap).status = "ok"
        /\ get_routing_endpoint(OutP, heap).v = C4_Resolved(Parent, PreHeap)
        /\ IsDict(OutP["routing_metadata"], heap)
        /\ Has(heap[OutP["routing_metadata"].n].m, "endpoint_name")
        /\ heap[OutP["routing_metadata"].n].m["endpoint_name"] = C4_Resolved(Parent, PreHeap)

C4_Witness ==
    /\ Succeeded({"reply", "reply_group"})
    /\ Has(last.kw, "routing_metadata")
    /\ C4_Resolved(Parent, PreHeap) = Str("ep1")

\* What reply returns for the arguments of the latest call, in the state the
\* call was made in.
C5_Reply ==
    reply(last.parent, last.content, last.continue_session, last.kw,
          last.pre.store, PreHeap, last.pre.nextId, last.pre.clock)

C5_Agrees(r) ==
    /\ last.status = r.status
    /\ last.field = r.field
    /\ last.status = "ok" =>
         /\ DOMAIN OutP = DOMAIN r.store[Len(r.store)].payload
         /\ \A key \in DOMAIN OutP \ {"message_id", "timestamp", "to_addr"} :
               SameValue(OutP[key], heap, r.store[Len(r.store)].payload[key], r.heap)
         /\ OutP["to_addr"] =
               (IF Parent["group"] # None THEN None ELSE Parent["from_addr"])
         /\ Parent["group"] = None =>
               OutP["to_addr"] = r.store[Len(r.store)].payload["to_addr"]
         /\ OutP["group"] = Parent["group"]

\* C5: reply_group ends as reply does for the same arguments, and its envelope
\* agrees with reply's on every field but message_id and timestamp, except that
\* to_addr is null when the parent's group is not null; group is the parent's.
C5_ReplyGroupIsReplyButToAddr == last.op = "reply_group" => C5_Agrees(C5_Reply)

C5_Witness == Succeeded({"reply_group"}) /\ Parent["group"] # None
-----------------------------------------------------------------------------
\* The keys every user message must carry, group among them.
UserKeys ==
    {"message_version", "message_type", "timestamp", "message_id", "to_addr",
     "from_addr", "in_reply_to", "session_event", "content", "transport_name",
     "transport_type", "transport_metadata", "helper_metadata", "group"}

\* The keys construction from raw fields fills in when they are absent.
UserDefaulted ==
    {"message_version", "message_type", "timestamp", "routing_metadata",
     "message_id", "in_reply_to", "session_event", "content",
     "transport_metadata", "helper_metadata", "group"}

SessionLeaves == {TNone, TStr("new"), TStr("resume"), TStr("close")}

ValidUser(p) ==
    /\ UserKeys \subseteq DOMAIN p
    /\ p["message_version"] = Str("20110921")
    /\ p["message_type"] # None
    /\ p["session_event"] \in {None, Str("new"), Str("resume"), Str("close")}

\* The latest call built a user message from the literal or document last.arg.
Builds == last.cls = "user" /\ last.op \in {"new", "from_json"}

\* The keys its payload has once defaults (raw fields) or the back-compat
\* group (wire JSON) are in.
BuiltKeys ==
    DOMAIN last.arg.m \cup (IF last.op = "new" THEN UserDefaulted ELSE {"group"})

BadVersion ==
    Has(last.arg.m, "message_version") /\ last.arg.m["message_version"] # TStr("20110921")
BadType == Has(last.arg.m, "message_type") /\ last.arg.m["message_type"] = TNone
BadSession ==
    Has(last.arg.m, "session_event") /\ last.arg.m["session_event"] \notin SessionLeaves

\* C6: every user message a construction path returns is valid (version, a
\* non-null type, every required key, session_event one of the four); a payload
\* that would not be fails with a validation error and nothing is returned; a
\* payload whose only fault is its session_event fails with InvalidField.
C6_ValidOrRefused ==
    /\ (last.cls = "user" /\ last.status = "ok") => ValidUser(OutP)
    /\ (Builds /\ (~(UserKeys \subseteq BuiltKeys) \/ BadVersion \/ BadType \/ BadSession)) =>
          /\ last.status \in {"MissingField", "InvalidField"}
          /\ store = last.pre.store
    /\ (Builds /\ UserKeys \subseteq BuiltKeys /\ ~BadVersion /\ ~BadType /\ BadSession) =>
          last.status = "InvalidField"

EventKinds == {TStr("ack"), TStr("nack"), TStr("delivery_report")}

\* The extra field the claims give each kind of event, and its predicate.
ExtraOf(type) ==
    IF type = TStr("ack") THEN "sent_message_id"
    ELSE IF type = TStr("nack") THEN "nack_reason" ELSE "delivery_status"

ExtraHolds(extra, leaf) ==
    IF extra = "delivery_status"
    THEN leaf \in {TStr("pending"), TStr("failed"), TStr("delivered")}
    ELSE leaf # TNone

\* The latest call built an Event from raw fields that pass the
\* transport-level checks and carry user_message_id and event_type (event_id
\* is generated).
C7_Case ==
    /\ last.op = "new" /\ last.cls = "event"
    /\ ~BadVersion /\ ~BadType
    /\ Has(last.arg.m, "user_message_id") /\ Has(last.arg.m, "event_type")

C7_Type == last.arg.m["event_type"]
C7_Extra == ExtraOf(C7_Type)
Unhashable(leaf) == leaf.k \in {"obj", "list"}

Decoded(p, h) ==
    PayloadTree(from_json(Message_to_json(p, h), h).m,
                from_json(Message_to_json(p, h), h).h)

\* C8: decoding the JSON encoding of any envelope's payload gives the payload
\* back, value for value and kind for kind.
C8_RoundTrip ==
    \A i \in DOMAIN store :
        Decoded(store[i].payload, heap) = PayloadTree(store[i].payload, heap)

\* C9: copy() of an envelope succeeds, returns an envelope of the same class
\* whose payload equals the original's, and leaves the original as it was.
C9_CopyEqual ==
    last.op = "copy" =>
        /\ last.status = "ok"
        /\ store[Len(store)].cls = last.pre.store[last.parent].cls
        /\ Message_eq(OutP, heap, Parent, PreHeap)
        /\ Message_eq(store[last.parent].payload, heap, Parent, PreHeap)

\* The document of the latest from_json lacks a required key other than group.
Lacks == last.op = "from_json" /\ ~((UserKeys \ {"group"}) \subseteq DOMAIN last.arg.m)

\* It has every required key but group, and valid values.
OnlyGroupAbsent ==
    /\ last.op = "from_json"
    /\ DOMAIN last.arg.m \cap UserKeys = UserKeys \ {"group"}
    /\ ~BadVersion /\ ~BadType /\ ~BadSession

\* The group-less document validates, with group null and nothing else added.
GroupDefaulted ==
    OnlyGroupAbsent =>
        /\ last.status = "ok"
        /\ OutP["group"] = None
        /\ DOMAIN OutP = DOMAIN last.arg.m \cup {"group"}

\* C10 as claimed: from wire JSON a payload lacking a required key other than
\* group fails with MissingField and nothing is filled in; one that lacks only
\* group validates with group null.
C10_Original ==
    /\ Lacks => (last.status = "MissingField" /\ store = last.pre.store)
    /\ GroupDefaulted

\* C10, amended: the failure is MissingField naming an absent key, unless a
\* check that runs earlier fails first -- a message_version that is present but
\* wrong, or (with message_version right and timestamp present) a message_type
\* that is present but null -- and then it is InvalidField naming that field.
C10_WireFillsNoDefaults ==
    /\ Lacks =>
          /\ store = last.pre.store
          /\ IF BadVersion
             THEN last.status = "InvalidField" /\ last.field = "message_version"
             ELSE IF /\ BadType
                     /\ {"message_version", "timestamp"} \subseteq DOMAIN last.arg.m
                  THEN last.status = "InvalidField" /\ last.field = "message_type"
                  ELSE /\ last.status = "MissingField"
                       /\ last.field \in (UserKeys \ {"group"}) \ DOMAIN last.arg.m
    /\ GroupDefaulted

C10_Witness == Lacks /\ last.status = "MissingField" /\ last.field = "message_id"
-----------------------------------------------------------------------------
\* C11 as claimed: every user message a construction path returns (raw fields,
\* wire JSON, send, reply, reply_group) has a transport_type that is one of the
\* canonical transport types http_api, irc, telnet, twitter, sms, ussd, xmpp,
\* mxit.
C11_Original ==
    (last.cls = "user" /\ last.status = "ok"
        /\ last.op \in {"new", "from_json", "send", "reply", "reply_group"}) =>
        OutP["transport_type"] \in TRANSPORT_TYPES

\* send was called with keywords that do not collide with its own.
C11_Sent == last.op = "send" /\ DOMAIN last.kw \cap {"to_addr", "in_reply_to", "content", "session_event"} = {}

\* C11, amended: such a message has transport_type as a key, but the value is
\* never checked against the canonical set: it is whatever the caller gave (raw
\* fields, wire JSON, send), null when send is given none, and the parent's in
\* a reply.
C11_TransportTypeUnchecked ==
    /\ (last.cls = "user" /\ last.status = "ok") => Has(OutP, "transport_type")
    /\ (Builds /\ last.status = "ok") =>
          Leaf(OutP["transport_type"]) = last.arg.m["transport_type"]
    /\ C11_Sent =>
          /\ last.status = "ok"
          /\ Leaf(OutP["transport_type"]) =
                (IF Has(last.kw, "transport_type") THEN last.kw["transport_type"] ELSE TNone)
    /\ Succeeded({"reply", "reply_group"}) =>
          OutP["transport_type"] = Parent["transport_type"]

C11_Witness ==
    /\ Succeeded({"send"}) /\ OutP["transport_type"] = None

\* The envelope of the pair that the latest write was not made to.
C12_Other == IF last.target = last.parent THEN Len(store) ELSE last.parent

\* C12: after r = parent.reply(...) or parent.reply_group(...), a write to r --
\* a top-level field, or an entry of its transport_metadata, helper_metadata or
\* routing_metadata -- leaves the parent's payload as it was, and such a write
\* to the parent leaves r's payload as it was.
C12_Independent ==
    (last.op \in {"setitem", "setmeta"} /\ last.status = "ok") =>
        Message_eq(store[C12_Other].payload, heap,
                   last.pre.store[C12_Other].payload, PreHeap)
====
